---- MODULE Spec2Model ----
(***************************************************************************)
(* BlueNRG low-level SPI driver (src/zinc/drivers/bluenrg.rs).             *)
(*                                                                         *)
(* One caller drives one BlueNrg instance.  Every pin operation and every  *)
(* byte transfer of new, check, wakeup, receive and send is one step; the  *)
(* byte the peripheral answers with is chosen freely at each transfer.     *)
(* SpecRepeat lets the caller repeat the call it has just made; SpecRace   *)
(* adds a second caller of check on the same instance.                     *)
(***************************************************************************)
EXTENDS Integers, Sequences, FiniteSets, TLC

VARIABLES
  active,     \* level of the select pin: "high" or "low"
  pc,         \* position of the caller inside the driver
  op,         \* the public method being executed (or executed last)
  num_tries,  \* wakeup: the mutable retry counter
  status,     \* local `status`
  w0, w1,     \* locals `w0`, `w1`
  r0, r1,     \* locals `r0`, `r1`
  size,       \* local `size` of receive / send
  buf,        \* contents of the caller's slice (kept when buflen <= MaxLen)
  buflen,     \* buf.len(), a usize
  i,          \* number of elements the payload loop has consumed
  hn,         \* number of header bytes transferred in the current frame
  chk,        \* value returned by the last check() to wakeup
  result,     \* value returned by the public method
  trace,      \* history: pin and bus events of the current call
  rx,         \* history: bytes received since the select line went low
  pulse,      \* history: transfers since the select line went low
  outcomes,   \* history: results of the handshakes of the current call
  arg_tries,  \* history: the num_tries argument of wakeup
  buf0,       \* history: contents of the slice when the call started
  xferHigh,   \* history: a transfer happened while select was high
  prev,       \* history: the call before this one, when the caller repeats it
  other       \* a second caller of check on the same instance, if there is one

vars == <<active, pc, op, num_tries, status, w0, w1, r0, r1, size, buf, buflen,
          i, hn, chk, result, trace, rx, pulse, outcomes, arg_tries, buf0,
          xferHigh, prev, other>>

----------------------------------------------------------------------------
(* Bounds of the model *)

\* longest slice whose contents are followed element by element
MaxLen == 2
\* largest num_tries handed to wakeup
MaxTries == 2
\* a slice length that does not fit in 16 bits
WideLen == 65537

(* Widths and opcodes of the program *)
U16 == 65536
SpiWrite == 10
SpiReadMixedUp == SpiWrite
SpiRead == 11
Ready == 2
HeaderLen == 5

\* bytes the peripheral answers with after the first of a frame
Bytes == {0, 1, 2, 255}
\* first byte of a frame: ready, both sleeping codes, and their neighbours
StatusBytes == {0, 1, 2, 3, 254, 255}
\* the header of a ready peripheral: write capacity 1, read capacity 2
ReadyFrame == <<2, 0, 1, 0, 2>>
\* bytes a send buffer holds
Payload == {1, 255}
\* bytes a receive buffer is filled with before the call
Fill == {0, 255}

----------------------------------------------------------------------------
(* Values *)

Res(t, x, y) == [tag |-> t, a |-> x, b |-> y]
NoResult == Res("none", 0, 0)
OkPair(w, r) == Res("Ok", w, r)
OkUnit == Res("Ok", 0, 0)
SpiSleeping == Res("SpiSleeping", 0, 0)
SpiUnknown(s) == Res("SpiUnknown", s, 0)
SpiBufferSize(n) == Res("SpiBufferSize", n, 0)

Ev(k, o) == [kind |-> k, out |-> o]
EvLow == Ev("set_low", 0)
EvHigh == Ev("set_high", 0)
EvTransfer(o) == Ev("transfer", o)

\* bitwise or of two naturals
RECURSIVE BitOr(_, _)
BitOr(x, y) ==
  IF x = 0 THEN y
  ELSE IF y = 0 THEN x
  ELSE (IF x % 2 = 1 \/ y % 2 = 1 THEN 1 ELSE 0) + 2 * BitOr(x \div 2, y \div 2)

\* (hi as u16 << 8) | (lo as u16)
Swapped16(hi, lo) == BitOr((lo * 256) % U16, hi)
Decode16(hi, lo) == BitOr((hi * 256) % U16, lo)

\* n as u16
AsU16(n) == n % U16

\* the match of check()
CheckNoFF(s, a, b, c, d) ==
  IF s = Ready THEN OkPair(Decode16(a, b), Decode16(c, d))
  ELSE IF s = 0 THEN SpiSleeping
  ELSE SpiUnknown(s)
CheckResult(s, a, b, c, d) ==
  IF s = Ready THEN OkPair(Decode16(a, b), Decode16(c, d))
  ELSE IF s = 0 \/ s = 255 THEN SpiSleeping
  ELSE SpiUnknown(s)

\* the guard of wakeup's first match arm
RetriesForever(c, n) == c = SpiSleeping
RetriesOffByOne(c, n) == c = SpiSleeping /\ n > 1
RetryAny(c, n) == c.tag # "Ok" /\ n > 0
Retries(c, n) == c = SpiSleeping /\ n > 0

\* the if / else if / else of receive and send
BranchLe(s, sz, len) ==
  IF s # Ready THEN "unknown"
  ELSE IF sz <= AsU16(len) THEN "small"
  ELSE "loop"
BranchSizeFirst(s, sz, len) ==
  IF sz < AsU16(len) THEN "small"
  ELSE IF s # Ready THEN "unknown"
  ELSE "loop"
Branch(s, sz, len) ==
  IF s # Ready THEN "unknown"
  ELSE IF sz < AsU16(len) THEN "small"
  ELSE "loop"

\* no call is being repeated
NoCall ==
  [op |-> "none", vary |-> {}, rx |-> <<>>, result |-> NoResult, buf |-> <<>>,
   trace |-> <<>>]

\* the second caller: its position in check, its locals and its result
OtherAt(p) ==
  [pc |-> p, hn |-> 0, status |-> 0, w0 |-> 0, w1 |-> 0, r0 |-> 0, r1 |-> 0,
   result |-> NoResult, overlap |-> FALSE]
Absent == OtherAt("absent")
InCheck == {"c_low", "c_hdr", "c_high", "c_match"}

\* history: the first caller acts inside the driver while the second is in check
Seen(o) == IF o.pc \in InCheck THEN [o EXCEPT !.overlap = TRUE] ELSE o

\* what a step of the first caller inside the driver leaves alone
Elsewhere == prev' = prev /\ other' = Seen(other)

\* the history is kept for slices whose contents the model follows, with one
\* caller
Tracked == buflen <= MaxLen /\ other.pc = "absent"

\* what a peripheral that answers by the position in the low pulse returns
Scripted ==
  IF active = "high" THEN 255
  ELSE IF pulse < HeaderLen THEN ReadyFrame[pulse + 1]
  ELSE 0

\* what the peripheral may answer to transfer number h of a frame: any byte;
\* the byte of the repeated call where the repetition keeps it; the scripted
\* byte when two callers share the instance
Replies(h) ==
  IF other.pc # "absent" THEN {Scripted}
  ELSE IF prev # NoCall /\ h \notin prev.vary THEN {prev.rx[h + 1]}
  ELSE IF h = 0 THEN StatusBytes
  ELSE Bytes

----------------------------------------------------------------------------
(* The two capabilities *)

\* Gpio::set_low
SetLow ==
  /\ active' = "low"
  /\ trace' = IF Tracked THEN Append(trace, EvLow) ELSE trace
  /\ rx' = <<>>
  /\ pulse' = 0
  /\ UNCHANGED xferHigh

\* Gpio::set_high
SetHigh ==
  /\ active' = "high"
  /\ trace' = IF Tracked THEN Append(trace, EvHigh) ELSE trace
  /\ UNCHANGED <<rx, pulse, xferHigh>>

\* Spi::transfer(out), answered with reply
Transfer(out, reply) ==
  /\ trace' = IF Tracked THEN Append(trace, EvTransfer(out)) ELSE trace
  /\ rx' = IF Tracked THEN Append(rx, reply) ELSE rx
  /\ pulse' = pulse + 1
  /\ xferHigh' = (xferHigh \/ active = "high")
  /\ UNCHANGED active

----------------------------------------------------------------------------
(* Construction *)

Init ==
  /\ active \in {"low", "high"}
  /\ pc = "new"
  /\ op = "new"
  /\ num_tries = 0 /\ arg_tries = 0
  /\ status = 0 /\ w0 = 0 /\ w1 = 0 /\ r0 = 0 /\ r1 = 0 /\ size = 0
  /\ buf = <<>> /\ buf0 = <<>> /\ buflen = 0
  /\ i = 0 /\ hn = 0
  /\ chk = NoResult /\ result = NoResult
  /\ trace = <<>> /\ rx = <<>> /\ pulse = 0 /\ outcomes = <<>>
  /\ xferHigh = FALSE
  /\ prev = NoCall
  /\ other = Absent

NewNoHigh ==
  /\ pc = "new"
  /\ UNCHANGED <<prev, other>>
  /\ pc' = "idle"
  /\ UNCHANGED <<active, trace>>
  /\ UNCHANGED <<op, num_tries, status, w0, w1, r0, r1, size, buf, buflen, i,
                 hn, chk, result, rx, pulse, outcomes, arg_tries, buf0,
                 xferHigh>>
New ==
  /\ pc = "new"
  /\ UNCHANGED <<prev, other>>
  /\ active' = "high"
  /\ trace' = Append(trace, EvHigh)
  /\ pc' = "idle"
  /\ UNCHANGED <<op, num_tries, status, w0, w1, r0, r1, size, buf, buflen, i,
                 hn, chk, result, rx, pulse, outcomes, arg_tries, buf0,
                 xferHigh>>

FreshStale(o, entry, n, b, len) ==
  /\ pc' = entry
  /\ op' = o
  /\ num_tries' = n /\ arg_tries' = n
  /\ buf' = b /\ buf0' = b /\ buflen' = len
  /\ status' = 0 /\ w0' = 0 /\ w1' = 0 /\ r0' = 0 /\ r1' = 0 /\ size' = 0
  /\ i' = i /\ hn' = 0
  /\ chk' = NoResult /\ result' = NoResult
  /\ trace' = <<>> /\ rx' = <<>> /\ outcomes' = <<>>
  /\ pulse' = IF other.pc = "absent" THEN 0 ELSE pulse
  /\ UNCHANGED <<active, xferHigh>>
\* method o starts at entry with its arguments, its locals fresh
Fresh(o, entry, n, b, len) ==
  /\ pc' = entry
  /\ op' = o
  /\ num_tries' = n /\ arg_tries' = n
  /\ buf' = b /\ buf0' = b /\ buflen' = len
  /\ status' = 0 /\ w0' = 0 /\ w1' = 0 /\ r0' = 0 /\ r1' = 0 /\ size' = 0
  /\ i' = 0 /\ hn' = 0
  /\ chk' = NoResult /\ result' = NoResult
  /\ trace' = <<>> /\ rx' = <<>> /\ outcomes' = <<>>
  /\ pulse' = IF other.pc = "absent" THEN 0 ELSE pulse
  /\ UNCHANGED <<active, xferHigh>>

\* the caller enters method o with its arguments
Enter(o, entry, n, b, len) ==
  /\ pc = "idle"
  /\ Fresh(o, entry, n, b, len)
  /\ Elsewhere

\* the caller has taken the returned value; the driver keeps nothing of the call
Release ==
  /\ pc = "done"
  /\ pc' = "idle"
  /\ op' = "none"
  /\ num_tries' = 0 /\ arg_tries' = 0
  /\ buf' = <<>> /\ buf0' = <<>> /\ buflen' = 0
  /\ status' = 0 /\ w0' = 0 /\ w1' = 0 /\ r0' = 0 /\ r1' = 0 /\ size' = 0
  /\ i' = 0 /\ hn' = 0
  /\ chk' = NoResult /\ result' = NoResult
  /\ trace' = <<>> /\ rx' = <<>> /\ outcomes' = <<>>
  /\ pulse' = IF other.pc = "absent" THEN 0 ELSE pulse
  /\ prev' = NoCall
  /\ UNCHANGED <<active, xferHigh, other>>

----------------------------------------------------------------------------
(* check *)

CallCheck == Enter("check", "c_low", 0, <<>>, 0)

CheckSetLow ==
  /\ pc = "c_low"
  /\ Elsewhere
  /\ SetLow
  /\ hn' = 0
  /\ pc' = "c_hdr"
  /\ UNCHANGED <<op, num_tries, status, w0, w1, r0, r1, size, buf, buflen, i,
                 chk, result, outcomes, arg_tries, buf0>>

\* the five transfers: status, w0, w1, r0, r1
CheckHeader ==
  /\ pc = "c_hdr"
  /\ Elsewhere
  /\ \E reply \in Replies(hn) :
       /\ Transfer(IF hn = 0 THEN SpiRead ELSE 0, reply)
       /\ status' = IF hn = 0 THEN reply ELSE status
       /\ w0' = IF hn = 1 THEN reply ELSE w0
       /\ w1' = IF hn = 2 THEN reply ELSE w1
       /\ r0' = IF hn = 3 THEN reply ELSE r0
       /\ r1' = IF hn = 4 THEN reply ELSE r1
  /\ hn' = hn + 1
  /\ pc' = IF hn + 1 = HeaderLen THEN "c_high" ELSE "c_hdr"
  /\ UNCHANGED <<op, num_tries, size, buf, buflen, i, chk, result, outcomes,
                 arg_tries, buf0>>

CheckKeepLow ==
  /\ pc = "c_high"
  /\ Elsewhere
  /\ pc' = "c_match"
  /\ UNCHANGED <<active, trace, rx, pulse, xferHigh>>
  /\ UNCHANGED <<op, num_tries, status, w0, w1, r0, r1, size, buf, buflen, i,
                 hn, chk, result, outcomes, arg_tries, buf0>>
CheckSetHigh ==
  /\ pc = "c_high"
  /\ Elsewhere
  /\ SetHigh
  /\ pc' = "c_match"
  /\ UNCHANGED <<op, num_tries, status, w0, w1, r0, r1, size, buf, buflen, i,
                 hn, chk, result, outcomes, arg_tries, buf0>>

\* the match on status; check returns to its caller and its locals die
CheckMatch ==
  /\ pc = "c_match"
  /\ Elsewhere
  /\ LET v == CheckResult(status, w0, w1, r0, r1) IN
       /\ outcomes' = Append(outcomes, v)
       /\ IF op = "wakeup"
            THEN /\ chk' = v
                 /\ pc' = "w_match"
                 /\ UNCHANGED result
            ELSE /\ result' = v
                 /\ pc' = "done"
                 /\ UNCHANGED chk
  /\ status' = 0 /\ w0' = 0 /\ w1' = 0 /\ r0' = 0 /\ r1' = 0 /\ hn' = 0
  /\ UNCHANGED <<active, op, num_tries, size, buf, buflen, i, trace, rx, pulse,
                 arg_tries, buf0, xferHigh>>

----------------------------------------------------------------------------
(* wakeup *)

CallWakeup == \E n \in 0..MaxTries : Enter("wakeup", "w_loop", n, <<>>, 0)

\* loop { match self.check() ...
WakeupCheck ==
  /\ pc = "w_loop"
  /\ Elsewhere
  /\ pc' = "c_low"
  /\ UNCHANGED <<active, op, num_tries, status, w0, w1, r0, r1, size, buf,
                 buflen, i, hn, chk, result, trace, rx, pulse, outcomes,
                 arg_tries, buf0, xferHigh>>

\* Err(SpiSleeping) if num_tries > 0 => num_tries -= 1
WakeupRetry ==
  /\ pc = "w_match"
  /\ Elsewhere
  /\ Retries(chk, num_tries)
  /\ num_tries' = num_tries - 1
  /\ pc' = "w_loop"
  /\ UNCHANGED <<active, op, status, w0, w1, r0, r1, size, buf, buflen, i, hn,
                 chk, result, trace, rx, pulse, outcomes, arg_tries, buf0,
                 xferHigh>>

\* other => return other
WakeupReturn ==
  /\ pc = "w_match"
  /\ Elsewhere
  /\ ~Retries(chk, num_tries)
  /\ result' = chk
  /\ pc' = "done"
  /\ UNCHANGED <<active, op, num_tries, status, w0, w1, r0, r1, size, buf,
                 buflen, i, hn, chk, trace, rx, pulse, outcomes, arg_tries,
                 buf0, xferHigh>>

----------------------------------------------------------------------------
(* receive *)

\* slices of length n filled with one byte
Filled(n) == {[k \in 1..n |-> f] : f \in Fill}
\* slices of length n of payload bytes
Slices(n) == [1..n -> Payload]
\* answers to a payload transfer; those to a slice the model does not follow
\* element by element leave no mark on the state
PayloadReplies ==
  IF prev # NoCall /\ HeaderLen + i + 1 <= Len(prev.rx)
    THEN {prev.rx[HeaderLen + i + 1]}
  ELSE IF buflen <= MaxLen THEN Bytes
  ELSE {0}

CallReceive ==
  \E n \in 0..MaxLen : \E b \in Filled(n) : Enter("receive", "r_low", 0, b, n)

\* a slice longer than 65535 elements; only its length is followed
CallReceiveWide == Enter("receive", "r_low", 0, <<>>, WideLen)

ReceiveSetLow ==
  /\ pc = "r_low"
  /\ Elsewhere
  /\ SetLow
  /\ hn' = 0
  /\ pc' = "r_hdr"
  /\ UNCHANGED <<op, num_tries, status, w0, w1, r0, r1, size, buf, buflen, i,
                 chk, result, outcomes, arg_tries, buf0>>

ReceiveHeaderEarlyExit ==
  /\ pc = "r_hdr"
  /\ Elsewhere
  /\ \E reply \in Replies(hn) :
       /\ Transfer(IF hn = 0 THEN SpiRead ELSE 0, reply)
       /\ status' = IF hn = 0 THEN reply ELSE status
       /\ r0' = IF hn = 3 THEN reply ELSE r0
       /\ r1' = IF hn = 4 THEN reply ELSE r1
       /\ pc' = IF hn + 1 = HeaderLen \/ (hn = 0 /\ reply # Ready)
                  THEN "r_size" ELSE "r_hdr"
  /\ hn' = hn + 1
  /\ UNCHANGED <<op, num_tries, w0, w1, size, buf, buflen, i, chk, result,
                 outcomes, arg_tries, buf0>>
ReceiveHeaderWrongPair ==
  /\ pc = "r_hdr"
  /\ Elsewhere
  /\ \E reply \in Replies(hn) :
       /\ Transfer(IF hn = 0 THEN SpiRead ELSE 0, reply)
       /\ status' = IF hn = 0 THEN reply ELSE status
       /\ r0' = IF hn = 1 THEN reply ELSE r0
       /\ r1' = IF hn = 2 THEN reply ELSE r1
  /\ hn' = hn + 1
  /\ pc' = IF hn + 1 = HeaderLen THEN "r_size" ELSE "r_hdr"
  /\ UNCHANGED <<op, num_tries, w0, w1, size, buf, buflen, i, chk, result,
                 outcomes, arg_tries, buf0>>
\* the five transfers: status, two discarded, r0, r1
ReceiveHeader ==
  /\ pc = "r_hdr"
  /\ Elsewhere
  /\ \E reply \in Replies(hn) :
       /\ Transfer(IF hn = 0 THEN SpiRead ELSE 0, reply)
       /\ status' = IF hn = 0 THEN reply ELSE status
       /\ r0' = IF hn = 3 THEN reply ELSE r0
       /\ r1' = IF hn = 4 THEN reply ELSE r1
  /\ hn' = hn + 1
  /\ pc' = IF hn + 1 = HeaderLen THEN "r_size" ELSE "r_hdr"
  /\ UNCHANGED <<op, num_tries, w0, w1, size, buf, buflen, i, chk, result,
                 outcomes, arg_tries, buf0>>

\* let size = ...; and the choice of the branch
ReceiveDecide ==
  /\ pc = "r_size"
  /\ Elsewhere
  /\ size' = Decode16(r0, r1)
  /\ pc' = "r_" \o Branch(status, Decode16(r0, r1), buflen)
  /\ UNCHANGED <<active, op, num_tries, status, w0, w1, r0, r1, buf, buflen, i,
                 hn, chk, result, trace, rx, pulse, outcomes, arg_tries, buf0,
                 xferHigh>>

ReceiveUnknown ==
  /\ pc = "r_unknown"
  /\ Elsewhere
  /\ SetHigh
  /\ result' = SpiUnknown(status)
  /\ pc' = "done"
  /\ UNCHANGED <<op, num_tries, status, w0, w1, r0, r1, size, buf, buflen, i,
                 hn, chk, outcomes, arg_tries, buf0>>

ReceiveBufferSizeClears ==
  /\ pc = "r_small"
  /\ Elsewhere
  /\ SetHigh
  /\ result' = SpiBufferSize(size)
  /\ buf' = [k \in 1..Len(buf) |-> 0]
  /\ pc' = "done"
  /\ UNCHANGED <<op, num_tries, status, w0, w1, r0, r1, size, buflen, i,
                 hn, chk, outcomes, arg_tries, buf0>>
ReceiveBufferSizeLeak ==
  /\ pc = "r_small"
  /\ Elsewhere
  /\ result' = SpiBufferSize(size)
  /\ pc' = "done"
  /\ UNCHANGED <<active, trace, rx, pulse, xferHigh>>
  /\ UNCHANGED <<op, num_tries, status, w0, w1, r0, r1, size, buf, buflen, i,
                 hn, chk, outcomes, arg_tries, buf0>>
ReceiveBufferSize ==
  /\ pc = "r_small"
  /\ Elsewhere
  /\ SetHigh
  /\ result' = SpiBufferSize(size)
  /\ pc' = "done"
  /\ UNCHANGED <<op, num_tries, status, w0, w1, r0, r1, size, buf, buflen, i,
                 hn, chk, outcomes, arg_tries, buf0>>

\* one iteration of: for b in buf.iter_mut() { *b = transfer(0) }
ReceivePayload ==
  /\ pc = "r_loop"
  /\ Elsewhere
  /\ i < buflen
  /\ \E reply \in PayloadReplies :
       /\ Transfer(0, reply)
       /\ buf' = IF Tracked THEN [buf EXCEPT ![i + 1] = reply] ELSE buf
  /\ i' = i + 1
  /\ UNCHANGED <<pc, op, num_tries, status, w0, w1, r0, r1, size, buflen, hn,
                 chk, result, outcomes, arg_tries, buf0>>

ReceiveOk ==
  /\ pc = "r_loop"
  /\ Elsewhere
  /\ i = buflen
  /\ SetHigh
  /\ result' = OkUnit
  /\ pc' = "done"
  /\ UNCHANGED <<op, num_tries, status, w0, w1, r0, r1, size, buf, buflen, i,
                 hn, chk, outcomes, arg_tries, buf0>>

----------------------------------------------------------------------------
(* send *)

CallSend ==
  \E n \in 0..MaxLen : \E b \in Slices(n) : Enter("send", "s_low", 0, b, n)

CallSendWide == Enter("send", "s_low", 0, <<>>, WideLen)

SendSetLow ==
  /\ pc = "s_low"
  /\ Elsewhere
  /\ SetLow
  /\ hn' = 0
  /\ pc' = "s_hdr"
  /\ UNCHANGED <<op, num_tries, status, w0, w1, r0, r1, size, buf, buflen, i,
                 chk, result, outcomes, arg_tries, buf0>>

\* the five transfers: status, w0, w1, two discarded
SendHeader ==
  /\ pc = "s_hdr"
  /\ Elsewhere
  /\ \E reply \in Replies(hn) :
       /\ Transfer(IF hn = 0 THEN SpiWrite ELSE 0, reply)
       /\ status' = IF hn = 0 THEN reply ELSE status
       /\ w0' = IF hn = 1 THEN reply ELSE w0
       /\ w1' = IF hn = 2 THEN reply ELSE w1
  /\ hn' = hn + 1
  /\ pc' = IF hn + 1 = HeaderLen THEN "s_size" ELSE "s_hdr"
  /\ UNCHANGED <<op, num_tries, r0, r1, size, buf, buflen, i, chk, result,
                 outcomes, arg_tries, buf0>>

SendDecide ==
  /\ pc = "s_size"
  /\ Elsewhere
  /\ size' = Decode16(w0, w1)
  /\ pc' = "s_" \o Branch(status, Decode16(w0, w1), buflen)
  /\ UNCHANGED <<active, op, num_tries, status, w0, w1, r0, r1, buf, buflen, i,
                 hn, chk, result, trace, rx, pulse, outcomes, arg_tries, buf0,
                 xferHigh>>

SendUnknown ==
  /\ pc = "s_unknown"
  /\ Elsewhere
  /\ SetHigh
  /\ result' = SpiUnknown(status)
  /\ pc' = "done"
  /\ UNCHANGED <<op, num_tries, status, w0, w1, r0, r1, size, buf, buflen, i,
                 hn, chk, outcomes, arg_tries, buf0>>

SendBufferSize ==
  /\ pc = "s_small"
  /\ Elsewhere
  /\ SetHigh
  /\ result' = SpiBufferSize(size)
  /\ pc' = "done"
  /\ UNCHANGED <<op, num_tries, status, w0, w1, r0, r1, size, buf, buflen, i,
                 hn, chk, outcomes, arg_tries, buf0>>

SendPayloadFirstOnly ==
  /\ pc = "s_loop"
  /\ Elsewhere
  /\ i < buflen
  /\ \E reply \in PayloadReplies :
       Transfer(IF Tracked THEN buf[1] ELSE 0, reply)
  /\ i' = i + 1
  /\ UNCHANGED <<pc, op, num_tries, status, w0, w1, r0, r1, size, buf, buflen,
                 hn, chk, result, outcomes, arg_tries, buf0>>
\* one iteration of: for b in buf.iter() { transfer(*b) }
SendPayload ==
  /\ pc = "s_loop"
  /\ Elsewhere
  /\ i < buflen
  /\ \E reply \in PayloadReplies :
       Transfer(IF Tracked THEN buf[i + 1] ELSE 0, reply)
  /\ i' = i + 1
  /\ UNCHANGED <<pc, op, num_tries, status, w0, w1, r0, r1, size, buf, buflen,
                 hn, chk, result, outcomes, arg_tries, buf0>>

SendOk ==
  /\ pc = "s_loop"
  /\ Elsewhere
  /\ i = buflen
  /\ SetHigh
  /\ result' = OkUnit
  /\ pc' = "done"
  /\ UNCHANGED <<op, num_tries, status, w0, w1, r0, r1, size, buf, buflen, i,
                 hn, chk, outcomes, arg_tries, buf0>>

----------------------------------------------------------------------------
(* The caller makes the call it has just made once more *)

\* the first step of each method
EntryOf(o) ==
  CASE o = "check" -> "c_low"
    [] o = "wakeup" -> "w_loop"
    [] o = "receive" -> "r_low"
    [] o = "send" -> "s_low"

\* the header positions a method transfers and discards
Discarded(o) ==
  CASE o = "receive" -> {1, 2}
    [] o = "send" -> {3, 4}
    [] OTHER -> {}

\* the returned call, as its caller and the bus saw it
Snapshot(v) ==
  [op |-> op, vary |-> v, rx |-> rx, result |-> result, buf |-> buf,
   trace |-> trace]

\* the same method with the same arguments right after it returned; the
\* peripheral answers every transfer as it did the first time
RepeatSame ==
  /\ pc = "done"
  /\ prev = NoCall
  /\ Tracked
  /\ Len(outcomes) <= 1
  /\ prev' = Snapshot({})
  /\ Fresh(op, EntryOf(op), arg_tries, buf0, buflen)
  /\ UNCHANGED other

\* the same, but the peripheral is free at the header positions the method
\* discards; the first call is one that got zeros there, every other call
\* being the second call of such a pair
RepeatVaried ==
  /\ pc = "done"
  /\ prev = NoCall
  /\ Tracked
  /\ op \in {"receive", "send"}
  /\ \A h \in Discarded(op) : rx[h + 1] = 0
  /\ prev' = Snapshot(Discarded(op))
  /\ Fresh(op, EntryOf(op), arg_tries, buf0, buflen)
  /\ UNCHANGED other

----------------------------------------------------------------------------
(* A second caller runs check on the same instance *)

\* the instance exists and a second caller holds a reference to it
InitRace ==
  /\ active \in {"low", "high"}
  /\ pc = "new"
  /\ op = "new"
  /\ num_tries = 0 /\ arg_tries = 0
  /\ status = 0 /\ w0 = 0 /\ w1 = 0 /\ r0 = 0 /\ r1 = 0 /\ size = 0
  /\ buf = <<>> /\ buf0 = <<>> /\ buflen = 0
  /\ i = 0 /\ hn = 0
  /\ chk = NoResult /\ result = NoResult
  /\ trace = <<>> /\ rx = <<>> /\ pulse = 0 /\ outcomes = <<>>
  /\ xferHigh = FALSE
  /\ prev = NoCall
  /\ other = OtherAt("idle")

\* the first caller is inside a method
Busy == pc \notin {"new", "idle", "done"}

\* what a step of the second caller leaves alone: the first caller's frame
OtherStep ==
  UNCHANGED <<pc, op, num_tries, status, w0, w1, r0, r1, size, buf, buflen, i,
              hn, chk, result, outcomes, arg_tries, buf0, prev>>

OtherCallCheck ==
  /\ pc # "new"
  /\ other.pc = "idle"
  /\ other' = [OtherAt("c_low") EXCEPT !.overlap = other.overlap \/ Busy]
  /\ OtherStep
  /\ UNCHANGED <<active, trace, rx, pulse, xferHigh>>

OtherKeepHigh ==
  /\ other.pc = "c_low"
  /\ UNCHANGED <<active, trace, rx, pulse, xferHigh>>
  /\ other' = [other EXCEPT !.pc = "c_hdr", !.hn = 0,
                            !.overlap = other.overlap \/ Busy]
  /\ OtherStep
OtherSetLow ==
  /\ other.pc = "c_low"
  /\ SetLow
  /\ other' = [other EXCEPT !.pc = "c_hdr", !.hn = 0,
                            !.overlap = other.overlap \/ Busy]
  /\ OtherStep

OtherHeader ==
  /\ other.pc = "c_hdr"
  /\ \E reply \in Replies(other.hn) :
       /\ Transfer(IF other.hn = 0 THEN SpiRead ELSE 0, reply)
       /\ other' =
            [other EXCEPT
               !.status = IF other.hn = 0 THEN reply ELSE other.status,
               !.w0 = IF other.hn = 1 THEN reply ELSE other.w0,
               !.w1 = IF other.hn = 2 THEN reply ELSE other.w1,
               !.r0 = IF other.hn = 3 THEN reply ELSE other.r0,
               !.r1 = IF other.hn = 4 THEN reply ELSE other.r1,
               !.hn = other.hn + 1,
               !.pc = IF other.hn + 1 = HeaderLen THEN "c_high" ELSE "c_hdr",
               !.overlap = other.overlap \/ Busy]
  /\ OtherStep

OtherSetHigh ==
  /\ other.pc = "c_high"
  /\ SetHigh
  /\ other' = [other EXCEPT !.pc = "c_match",
                            !.overlap = other.overlap \/ Busy]
  /\ OtherStep

OtherMatch ==
  /\ other.pc = "c_match"
  /\ other' =
       [OtherAt("done") EXCEPT
          !.result = CheckResult(other.status, other.w0, other.w1, other.r0,
                                 other.r1),
          !.overlap = other.overlap \/ Busy]
  /\ OtherStep
  /\ UNCHANGED <<active, trace, rx, pulse, xferHigh>>

\* the second caller has taken the returned value
OtherRelease ==
  /\ other.pc = "done"
  /\ other' = [OtherAt("idle") EXCEPT !.overlap = other.overlap]
  /\ OtherStep
  /\ UNCHANGED <<active, trace, rx, pulse, xferHigh>>

----------------------------------------------------------------------------
(* Specifications *)

Next ==
  \/ New \/ Release
  \/ CallCheck \/ CheckSetLow \/ CheckHeader \/ CheckSetHigh \/ CheckMatch
  \/ CallWakeup \/ WakeupCheck \/ WakeupRetry \/ WakeupReturn
  \/ CallReceive \/ ReceiveSetLow \/ ReceiveHeader \/ ReceiveDecide
  \/ ReceiveUnknown \/ ReceiveBufferSize \/ ReceivePayload \/ ReceiveOk
  \/ CallSend \/ SendSetLow \/ SendHeader \/ SendDecide
  \/ SendUnknown \/ SendBufferSize \/ SendPayload \/ SendOk

\* slices of at most MaxLen elements
Spec == Init /\ [][Next]_vars

NextWide == Next \/ CallReceiveWide \/ CallSendWide

\* also slices whose length does not fit in 16 bits
SpecWide == Init /\ [][NextWide]_vars

\* a caller that only polls; every transfer returns and the code has no
\* other wait, so the caller's next step is always taken
NextWakeup ==
  \/ New \/ Release
  \/ CallWakeup \/ WakeupCheck \/ WakeupRetry \/ WakeupReturn
  \/ CheckSetLow \/ CheckHeader \/ CheckSetHigh \/ CheckMatch

SpecWakeup == Init /\ [][NextWakeup]_vars /\ WF_vars(NextWakeup)

NextRepeat == Next \/ RepeatSame \/ RepeatVaried

\* a caller that may repeat a call
SpecRepeat == Init /\ [][NextRepeat]_vars

NextRace ==
  \/ New \/ Release
  \/ CallCheck \/ CheckSetLow \/ CheckHeader \/ CheckSetHigh \/ CheckMatch
  \/ OtherCallCheck \/ OtherSetLow \/ OtherHeader \/ OtherSetHigh
  \/ OtherMatch \/ OtherRelease

\* two callers of check that nothing serializes
SpecRace == InitRace /\ [][NextRace]_vars

----------------------------------------------------------------------------
(* Properties *)

RECURSIVE Repeat(_, _)
Repeat(sq, n) == IF n = 0 THEN <<>> ELSE sq \o Repeat(sq, n - 1)

IsPrefix(sq, t) == Len(sq) <= Len(t) /\ SubSeq(t, 1, Len(sq)) = sq

\* the five header events of a frame opened with opcode o
HeaderEvents(o) == <<EvLow, EvTransfer(o)>> \o Repeat(<<EvTransfer(0)>>, 4)

\* a call has returned to the caller
Returned(o) == pc = "done" /\ op = o

\* C1: when send or receive returns, with any result and any slice length,
\* the select line is high.
C1_SelectHighOnReturn ==
  (Returned("send") \/ Returned("receive")) => active = "high"

C1_Witness ==
  /\ Returned("receive")
  /\ result.tag = "SpiBufferSize"
  /\ active = "high"

\* C2: after new(), the select line is high whenever no call is executing,
\* and every low pulse ends after exactly the 5 header transfers plus the
\* payload transfers of a successful send or receive.
C2_SelectPulse ==
  /\ [](pc \in {"idle", "done"} => active = "high")
  /\ [][(pc # "new" /\ active = "low" /\ active' = "high") =>
          pulse = 5 + (IF op \in {"send", "receive"} /\ result'.tag = "Ok"
                         THEN buflen ELSE 0)]_vars
  /\ [][(active = "high" /\ active' = "low") =>
          (pc \notin {"new", "idle", "done"} /\ pulse' = 0)]_vars

C2_Witness ==
  /\ Returned("receive")
  /\ result = OkUnit
  /\ buflen = 2
  /\ pulse = 7
  /\ active = "high"

\* C3: check() returns Ok exactly for status byte 0x02, Err(SpiSleeping)
\* exactly for 0x00 and 0xFF, and Err(SpiUnknown(b)) for every other byte b.
C3_CheckClassifies ==
  Returned("check") =>
    /\ (result.tag = "Ok") <=> (rx[1] = 2)
    /\ (result.tag = "SpiSleeping") <=> (rx[1] \in {0, 255})
    /\ (rx[1] \notin {0, 2, 255}) =>
         (result.tag = "SpiUnknown" /\ result.a = rx[1])

C3_Witness ==
  /\ Returned("check")
  /\ rx[1] = 254
  /\ result = SpiUnknown(254)

\* C4: with status 0x02 check() returns (write, read) with
\* write = 256 * byte1 + byte2 and read = 256 * byte3 + byte4.
C4_CheckDecodesBigEndian ==
  (Returned("check") /\ rx[1] = 2) =>
    /\ result.tag = "Ok"
    /\ result.a = 256 * rx[2] + rx[3]
    /\ result.b = 256 * rx[4] + rx[5]

C4_Witness ==
  /\ Returned("check")
  /\ rx = <<2, 1, 0, 0, 0>>
  /\ result.tag = "Ok" /\ result.a = 256 /\ result.b = 0

\* C5: every check(), alone or inside wakeup, puts exactly set_low,
\* transfer(0x0B), four transfer(0), set_high on the pin and the bus,
\* whatever the peripheral answers.
C5_CheckEvents ==
  (op \in {"check", "wakeup"}) =>
    LET frame == HeaderEvents(11) \o <<EvHigh>>
        n == Len(outcomes)
    IN  /\ IsPrefix(Repeat(frame, n), trace)
        /\ IsPrefix(trace, Repeat(frame, n + 1))
        /\ (pc = "done" => (n >= 1 /\ trace = Repeat(frame, n)))

C5_Witness ==
  /\ Returned("check")
  /\ result.tag = "SpiUnknown"
  /\ Len(trace) = 7
  /\ active = "high"

\* C6: when every handshake reports Sleeping, wakeup(n) runs the handshake
\* n + 1 times and returns Err(SpiSleeping).
C6_WakeupExhausts ==
  (op = "wakeup") =>
    /\ Len(outcomes) <= arg_tries + 1
    /\ (pc = "done" /\ \A k \in 1..Len(outcomes) : outcomes[k].tag = "SpiSleeping")
         => /\ Len(outcomes) = arg_tries + 1
            /\ Len(trace) = 7 * (arg_tries + 1)
            /\ result.tag = "SpiSleeping"

C6_Witness ==
  /\ Returned("wakeup")
  /\ arg_tries = 2
  /\ Len(outcomes) = 3
  /\ result.tag = "SpiSleeping"

\* C7: wakeup returns the first non-Sleeping handshake result unchanged and
\* runs no handshake after it, whatever the retries left.
C7_WakeupStopsAtFirstAnswer ==
  (op = "wakeup") =>
    /\ \A k \in 1..(Len(outcomes) - 1) : outcomes[k].tag = "SpiSleeping"
    /\ pc = "done" => (Len(outcomes) >= 1 /\ result = outcomes[Len(outcomes)])

C7_Witness ==
  /\ Returned("wakeup")
  /\ arg_tries = 2
  /\ num_tries = 1
  /\ Len(outcomes) = 2
  /\ result.tag = "SpiUnknown"

\* C8: receive with status 0x02 and a read capacity below buf.len() returns
\* Err(SpiBufferSize(capacity)) after the 5 header transfers and no other.
C8_ReceiveTooSmall ==
  (/\ op = "receive"
   /\ pc \in {"r_unknown", "r_small", "r_loop", "done"}
   /\ status = 2
   /\ size < buflen)
    => /\ pc \in {"r_small", "done"}
       /\ i = 0
       /\ pc = "done" => (result = SpiBufferSize(size) /\ pulse = 5)

\* C9: a payload byte is transferred only by a call whose buf.len() is at
\* most the capacity of that call's header, for every buf.len().
C9_PayloadWithinCapacity ==
  (op \in {"send", "receive"} /\ i > 0) => buflen <= size

\* C10: receive with status 0x02 and read capacity >= buf.len() makes, after
\* the header, buf.len() transfers of 0x00, stores the k-th answer in the
\* k-th element, drives select high and returns Ok.
C10_ReceiveFills ==
  (Returned("receive") /\ Tracked /\ rx[1] = 2 /\ 256 * rx[4] + rx[5] >= buflen) =>
    /\ result = OkUnit
    /\ active = "high"
    /\ trace = HeaderEvents(11) \o Repeat(<<EvTransfer(0)>>, buflen) \o <<EvHigh>>
    /\ Len(rx) = 5 + buflen
    /\ Len(buf) = buflen
    /\ \A k \in 1..buflen : buf[k] = rx[5 + k]

C10_Witness ==
  /\ Returned("receive")
  /\ buflen = 2
  /\ rx = <<2, 1, 1, 0, 2, 255, 1>>
  /\ buf0 = <<0, 0>>
  /\ buf = <<255, 1>>
  /\ result = OkUnit

\* the events of the elements of slice b sent in order
SentEvents(b) == [k \in 1..Len(b) |-> EvTransfer(b[k])]

\* C11: send with status 0x02 and write capacity >= buf.len() puts set_low,
\* transfer(0x0A), four transfer(0), every element of buf in order and
\* set_high on the pin and the bus, returns Ok and leaves buf as it was.
C11_SendStreams ==
  (Returned("send") /\ Tracked /\ rx[1] = 2 /\ 256 * rx[2] + rx[3] >= buflen) =>
    /\ result = OkUnit
    /\ trace = HeaderEvents(10) \o SentEvents(buf0) \o <<EvHigh>>
    /\ Len(buf0) = buflen
    /\ buf = buf0

C11_Witness ==
  /\ Returned("send")
  /\ buf0 = <<1, 255>>
  /\ rx[1] = 2 /\ rx[2] = 0 /\ rx[3] = 2
  /\ Len(trace) = 9
  /\ result = OkUnit

\* C12: in send and receive a status byte other than 0x02, 0x00 and 0xFF
\* included, gives Err(SpiUnknown(status)), also when the capacity reported
\* is below buf.len().
C12_UnknownFirst ==
  ((Returned("send") \/ Returned("receive")) /\ Tracked /\ rx[1] # 2) =>
    /\ result.tag = "SpiUnknown"
    /\ result.a = rx[1]

C12_Witness ==
  /\ Returned("receive")
  /\ buflen = 2
  /\ rx = <<255, 0, 0, 0, 1>>
  /\ result = SpiUnknown(255)

\* C13: send with status 0x02 and a write capacity below buf.len() returns
\* Err(SpiBufferSize(capacity)) and transfers no element of buf.
C13_SendTooSmall ==
  (/\ op = "send"
   /\ pc \in {"s_unknown", "s_small", "s_loop", "done"}
   /\ status = 2
   /\ size < buflen)
    => /\ pc \in {"s_small", "done"}
       /\ i = 0
       /\ pc = "done" => (result = SpiBufferSize(size) /\ pulse = 5)

\* C15: a check, send or receive that returns an error has made exactly the
\* 5 header transfers inside one low pulse, whatever the first answer was,
\* and no payload transfer.
C15_ErrorAfterWholeHeader ==
  (/\ Returned("check") \/ Returned("send") \/ Returned("receive")
   /\ Tracked
   /\ result.tag # "Ok")
    => /\ trace = HeaderEvents(IF op = "send" THEN 10 ELSE 11) \o <<EvHigh>>
       /\ Len(rx) = 5
       /\ pulse = 5
       /\ i = 0

C15_Witness ==
  /\ Returned("receive")
  /\ buflen = 1
  /\ rx = <<0, 1, 1, 1, 1>>
  /\ result = SpiUnknown(0)
  /\ Len(trace) = 7

\* index of the last pin event before event k of the history (0 if none)
LastPin(k) ==
  LET ps == {j \in 1..(k - 1) : trace[j].kind # "transfer"}
  IN  IF ps = {} THEN 0 ELSE CHOOSE j \in ps : \A q \in ps : q <= j

\* the level the pin has before event k; a call starts with the line high
LevelBefore(k) ==
  IF LastPin(k) = 0 THEN "high"
  ELSE IF trace[LastPin(k)].kind = "set_low" THEN "low" ELSE "high"

\* C19: with one caller no transfer happens while select is high; new()
\* drives select high first; afterwards set_low and set_high alternate, with
\* at least 5 transfers between a set_low and the set_high that follows.
C19_BusDiscipline ==
  /\ ~xferHigh
  /\ (op = "new" /\ pc = "idle") => (trace = <<EvHigh>> /\ active = "high")
  /\ (op # "new" /\ Tracked) =>
       /\ \A k \in 1..Len(trace) :
            /\ trace[k].kind = "transfer" => LevelBefore(k) = "low"
            /\ trace[k].kind = "set_low"  => LevelBefore(k) = "high"
            /\ trace[k].kind = "set_high" =>
                 (LevelBefore(k) = "low" /\ k - LastPin(k) - 1 >= 5)
       /\ active = LevelBefore(Len(trace) + 1)

C19_Witness ==
  /\ Returned("wakeup")
  /\ Len(outcomes) = 2
  /\ Len(trace) = 14
  /\ trace[7] = EvHigh /\ trace[8] = EvLow
  /\ ~xferHigh

\* C20: a receive that returns an error leaves every element of buf as it
\* was before the call; buf is written only by the payload loop.
C20_ReceiveErrorKeepsBuf ==
  (op = "receive" /\ Tracked) =>
    /\ (pc = "done" /\ result.tag # "Ok") => buf = buf0
    /\ (pc \notin {"r_loop", "done"}) => buf = buf0

C20_Witness ==
  /\ Returned("receive")
  /\ buf0 = <<255, 255>>
  /\ buf = <<255, 255>>
  /\ rx = <<2, 0, 0, 0, 1>>
  /\ result = SpiBufferSize(1)

\* C16: wakeup(n) returns after at most n + 1 handshakes whatever the
\* peripheral answers; each retry lowers the counter by one and the counter
\* never goes below 0.
C16_WakeupTerminates ==
  /\ [](op = "wakeup" =>
          (num_tries \in 0..arg_tries /\ Len(outcomes) <= arg_tries + 1))
  /\ [][(op = "wakeup" /\ pc = "w_match" /\ pc' = "w_loop") =>
          (num_tries > 0 /\ num_tries' = num_tries - 1)]_vars
  /\ (op = "wakeup" /\ pc # "done") ~> (op = "wakeup" /\ pc = "done")

C16_Witness ==
  /\ Returned("wakeup")
  /\ arg_tries = 2
  /\ num_tries = 0
  /\ Len(outcomes) = 3
  /\ result.tag = "Ok"

\* C17: with two callers of check on one instance, every transfer happens
\* with select low and each caller decodes the frame of its own pulse as
\* long as the two calls never overlap; some interleaving of overlapping
\* calls transfers with select high and hands a caller bytes that are not
\* the frame.  The driver has no state that keeps the calls apart.
C17_SerializedIsSafe ==
  (other.pc # "absent" /\ ~other.overlap) =>
    /\ ~xferHigh
    /\ (pc = "done" => result = OkPair(1, 2))
    /\ (other.pc = "done" => other.result = OkPair(1, 2))
    /\ (other.pc = "c_hdr" /\ ~Busy) => (active = "low" /\ pulse = other.hn)

C17_Witness ==
  /\ other.overlap
  /\ xferHigh
  /\ other.pc = "done"
  /\ other.result # OkPair(1, 2)
  /\ pc = "done"
  /\ result = OkPair(1, 2)

C18_DiscardedBytesIgnored ==
  (pc = "done" /\ prev # NoCall /\ prev.vary # {}) =>
    /\ prev.vary = (IF op = "receive" THEN {1, 2} ELSE {3, 4})
    /\ \A k \in 1..Len(prev.rx) : (k - 1) \notin prev.vary => rx[k] = prev.rx[k]
    /\ result = prev.result
    /\ Len(rx) = Len(prev.rx)

C18_Witness ==
  /\ pc = "done"
  /\ op = "receive"
  /\ buflen = 2
  /\ prev.vary = {1, 2}
  /\ prev.rx[2] = 0 /\ prev.rx[3] = 0
  /\ rx[2] = 255 /\ rx[3] = 1
  /\ result = OkUnit
  /\ prev.result = OkUnit
  /\ Len(rx) = 7

====
